---- MODULE Spec2Model ----
(***************************************************************************)
(* Model of the gesture input path of the particle Christmas tree:          *)
(*   - GestureController (src/src/GestureController.tsx): the asynchronous  *)
(*     recognizer/camera setup, its teardown, and the per-frame             *)
(*     predictWebcam handler with its debounce refs;                        *)
(*   - GrandTreeApp (src/unnamed/part_002, lines 245-930): the scene state  *)
(*     and the callbacks GestureController invokes;                         *)
(*   - TreeCanvas (src/src/TreeCanvas.tsx): photo positions and             *)
(*     getNearestPhotoIndex.                                                *)
(*                                                                          *)
(* Units.  Confidence scores and normalised hand coordinates are integers   *)
(* in hundredths (0.65 is 65, x = 0.5 is 50).  Camera velocities are in     *)
(* units of 1/10000, so (0.5 - x) * 0.15 is (50 - x) * 15 and the dead zone *)
(* 0.03 is 300.  Times are milliseconds.                                    *)
(***************************************************************************)
EXTENDS Integers, Sequences, FiniteSets, TLC

\* ---------------------------------------------------------------- config
confidenceThreshold == 65
rotationDeadZone == 300
rotationSensitivity == 15
pitchSensitivity == 10
pitchDeadZone == 300
TOTAL_NUMBERED_PHOTOS == 6
EXIT_CONFIRM_DURATION == 400
ENTER_CONFIRM_DURATION == 250
DEBOUNCE_INTERVAL == 500

\* ---------------------------------------------------------------- bounds
\* Date.now() of the first frame, and the last instant the model looks at.
StartTime == 1000
Horizon == 1000
\* Number of times gesture control may be enabled (GestureController mounts).
MaxMounts == 2

MaxTime == StartTime + Horizon
\* Time between two processed frames: the two confirmation durations, so that
\* a hold of exactly 250 ms, exactly 400 ms and exactly 500 ms all occur.
FrameGaps == {250, 400}

Null == "null"
NoTimer == -1

GestureNames ==
  {"Open_Palm", "Closed_Fist", "Pointing_Up", "Thumb_Up", "Thumb_Down", "Victory"}
Scores == {65, 66}
HandXs == {29, 30, 70, 71}
HandYs == {19, 20, 80, 81}

\* A frame's inference result: no hand, or one hand with its top gesture,
\* the gesture's score, and landmark 0 of the hand.
NoHand == [hand |-> FALSE, name |-> Null, score |-> 0, x |-> 50, y |-> 50]
Frames ==
  {NoHand} \cup
  [hand : {TRUE}, name : GestureNames, score : Scores, x : HandXs, y : HandYs]

Mounts == 1..MaxMounts

\* The photos the mouse clicks.
ClickChoices == {0, 5}

VARIABLES
  app,                 \* GrandTreeApp's React state (latest queued values)
  props,               \* the state captured by the callbacks held in the refs
  sceneStateRef,
  lastGestureRef, gestureDebounceRef, exitGestureTimerRef, enterFocusTimerRef,
  mounts,              \* GestureController instances created so far
  gc,                  \* per instance: the setup effect's closure variables
  scene,               \* TreeCanvas: ornament positions, registered map, camera
  now,                 \* Date.now()
  obs,                 \* what the last step passed to the callbacks
  hist                 \* what the frames so far have carried and fired

vars ==
  << app, props, sceneStateRef, lastGestureRef, gestureDebounceRef,
     exitGestureTimerRef, enterFocusTimerRef, mounts, gc, scene, now, obs, hist >>

\* ------------------------------------------------------- GrandTreeApp
\* Every callback is a closure over the state of the render that created it
\* (c); its setState calls act on the latest state (a).  Functional updates
\* (prev => ...) read a, plain conditions read c.

enterFocusMode(c, a, textureIndex) ==
  IF c.sceneState = "FOCUS"
    THEN [a EXCEPT !.focusedTextureIndex = textureIndex]
    ELSE [a EXCEPT !.previousState = c.sceneState,
                   !.focusedTextureIndex = textureIndex,
                   !.sceneState = "FOCUS",
                   !.rotationSpeed = 0]

exitFocusMode(c, a) ==
  IF c.sceneState # "FOCUS"
    THEN a
    ELSE [a EXCEPT !.sceneState = c.previousState, !.focusedTextureIndex = -1]

nextPhoto(c, a) ==
  IF c.sceneState # "FOCUS" \/ c.focusedTextureIndex = -1
    THEN a
    ELSE [a EXCEPT !.focusedTextureIndex =
                     (a.focusedTextureIndex + 1) % TOTAL_NUMBERED_PHOTOS]

prevPhoto(c, a) ==
  IF c.sceneState # "FOCUS" \/ c.focusedTextureIndex = -1
    THEN a
    ELSE [a EXCEPT !.focusedTextureIndex =
                     (a.focusedTextureIndex - 1 + TOTAL_NUMBERED_PHOTOS)
                       % TOTAL_NUMBERED_PHOTOS]

handleGesture(c, a, gesture, nearestTextureIndex) ==
  IF gesture \in {"CHAOS", "FORMED"}
    THEN [(IF c.sceneState = "FOCUS"
             THEN [a EXCEPT !.focusedTextureIndex = -1]
             ELSE a) EXCEPT !.sceneState = gesture]
  ELSE IF gesture = "ENTER_FOCUS"
    THEN IF c.sceneState # "FOCUS" /\ nearestTextureIndex >= 0
           THEN enterFocusMode(c, a, nearestTextureIndex)
           ELSE a
  ELSE IF c.sceneState = "FOCUS"
    THEN IF gesture = "NEXT_PHOTO" THEN nextPhoto(c, a)
         ELSE IF gesture = "PREV_PHOTO" THEN prevPhoto(c, a)
         ELSE a
  ELSE a

\* Speeds in units of 0.0001.
AUTO_ROTATION_SPEED == 20

\* A variant that never rotates on its own.
effectiveRotationSpeedNoAuto(r) ==
  IF r.sceneState = "FOCUS" THEN 0 ELSE r.rotationSpeed

\* The rotation speed a render passes to TreeCanvas.
effectiveRotationSpeed(r) ==
  IF r.sceneState = "FOCUS" THEN 0
  ELSE IF r.gestureEnabled /\ r.isUserInteracting THEN r.rotationSpeed
  ELSE AUTO_ROTATION_SPEED

\* The pitch speed a render passes to TreeCanvas.
effectivePitchSpeed(r) ==
  IF r.sceneState = "FOCUS" THEN 0
  ELSE IF r.gestureEnabled THEN r.pitchSpeed
  ELSE 0

handleMove(c, a, speed) ==
  IF c.sceneState = "FOCUS"
    THEN a
    ELSE [a EXCEPT !.rotationSpeed = speed, !.isUserInteracting = (speed # 0)]

handlePitch(c, a, speed) ==
  IF c.sceneState = "FOCUS" THEN a ELSE [a EXCEPT !.pitchSpeed = speed]

\* --------------------------------------------------------- TreeCanvas
\* Twelve ornaments carry the six photos (textureIndex = i % 6).  Positions
\* are integer vectors in the ornament group's frame; the group sits at
\* (0, -6, 0) in the world.
OrnamentCount == 12
GroupOffsetY == 6
Ornaments == 0..(OrnamentCount - 1)
Textures == 0..(TOTAL_NUMBERED_PHOTOS - 1)
textureIndexOf(i) == i % TOTAL_NUMBERED_PHOTOS

NoPos == << >>
DistSq(p, q) ==
  (p[1] - q[1]) * (p[1] - q[1]) + (p[2] - q[2]) * (p[2] - q[2])
    + (p[3] - q[3]) * (p[3] - q[3])

\* The position PhotoOrnaments registers for an ornament: currentPos with the
\* group's Y offset applied.
worldPos(p) == << p[1], p[2] - GroupOffsetY, p[3] >>

\* The Map's forEach visits the keys in insertion order, which is the order
\* of first registration, 0, 1, ..., 5; a strictly smaller distance wins.
RECURSIVE nearestFrom(_, _, _, _, _)
nearestFrom(registered, camera, k, nearestIndex, minDistance) ==
  IF k >= TOTAL_NUMBERED_PHOTOS THEN nearestIndex
  ELSE IF registered[k] # NoPos
          /\ (minDistance < 0 \/ DistSq(camera, registered[k]) < minDistance)
    THEN nearestFrom(registered, camera, k + 1, k, DistSq(camera, registered[k]))
    ELSE nearestFrom(registered, camera, k + 1, nearestIndex, minDistance)

getNearestPhotoIndex(sc) ==
  IF ~sc.controls \/ \A k \in Textures : sc.registered[k] = NoPos
    THEN 0
    ELSE nearestFrom(sc.registered, sc.camera, 0, 0, -1)

\* -------------------------------------------------- GestureController
Abs(v) == IF v < 0 THEN -v ELSE v

\* A variant that lets a score equal to the threshold pass.
confidentAtThreshold(score) == score >= confidenceThreshold

confident(score) == score > confidenceThreshold

isExitGesture(name) == name = "Open_Palm" \/ name = "Closed_Fist"

\* A variant that treats the thumbs like every other gesture.
isSwitchNever(name) == FALSE

isSwitch(name) == name = "Thumb_Up" \/ name = "Thumb_Down"

\* !ref.current is true for null and for 0.
timerUnset(timer) == timer = NoTimer \/ timer = 0

exitConfirmed(t, timer) == t - timer > EXIT_CONFIRM_DURATION

\* A variant that confirms at exactly the duration.
enterConfirmedAtLimit(t, timer) == t - timer >= ENTER_CONFIRM_DURATION

enterConfirmed(t, timer) == t - timer > ENTER_CONFIRM_DURATION

\* A variant whose interval elapses at exactly 500 ms.
shouldTriggerAtLimit(name, last, t, debounce) ==
  IF isSwitch(name)
    THEN name # last
    ELSE (name # last \/ t - debounce >= DEBOUNCE_INTERVAL)

shouldTrigger(name, last, t, debounce) ==
  IF isSwitch(name)
    THEN name # last
    ELSE (name # last \/ t - debounce > DEBOUNCE_INTERVAL)

\* What the generic branch dispatches once it has triggered.
dispatch(name, currentState) ==
  IF name = "Open_Palm" /\ currentState # "FOCUS" THEN "CHAOS"
  ELSE IF name = "Closed_Fist" /\ currentState # "FOCUS" THEN "FORMED"
  ELSE IF name = "Thumb_Up" /\ currentState = "FOCUS" THEN "PREV_PHOTO"
  ELSE IF name = "Thumb_Down" /\ currentState = "FOCUS" THEN "NEXT_PHOTO"
  ELSE Null

\* The gesture part of predictWebcam for a frame with a hand whose score
\* passed the threshold: the new refs, the branch taken, and the gesture
\* passed to onGesture (Null when none is).
recognize(r, name, t, currentState) ==
  IF currentState = "FOCUS" /\ isExitGesture(name) THEN
    IF timerUnset(r.exitTimer) THEN
      [r EXCEPT !.exitTimer = t, !.enterTimer = NoTimer,
                !.emit = Null, !.branch = "exit", !.triggered = FALSE]
    ELSE IF exitConfirmed(t, r.exitTimer) THEN
      [r EXCEPT !.exitTimer = NoTimer, !.enterTimer = NoTimer,
                !.lastGesture = name,
                !.emit = IF name = "Open_Palm" THEN "CHAOS" ELSE "FORMED",
                !.branch = "exit", !.triggered = TRUE]
    ELSE
      [r EXCEPT !.enterTimer = NoTimer,
                !.emit = Null, !.branch = "exit", !.triggered = FALSE]
  ELSE IF currentState # "FOCUS" /\ name = "Pointing_Up" THEN
    IF timerUnset(r.enterTimer) THEN
      [r EXCEPT !.enterTimer = t, !.exitTimer = NoTimer,
                !.emit = Null, !.branch = "enter", !.triggered = FALSE]
    ELSE IF enterConfirmed(t, r.enterTimer) THEN
      [r EXCEPT !.enterTimer = NoTimer, !.exitTimer = NoTimer,
                !.lastGesture = name,
                !.emit = "ENTER_FOCUS", !.branch = "enter", !.triggered = TRUE]
    ELSE
      [r EXCEPT !.exitTimer = NoTimer,
                !.emit = Null, !.branch = "enter", !.triggered = FALSE]
  ELSE
    IF shouldTrigger(name, r.lastGesture, t, r.debounce) THEN
      [r EXCEPT !.exitTimer = NoTimer, !.enterTimer = NoTimer,
                !.lastGesture = name, !.debounce = t,
                !.emit = dispatch(name, currentState),
                !.branch = "generic", !.triggered = TRUE]
    ELSE
      [r EXCEPT !.exitTimer = NoTimer, !.enterTimer = NoTimer,
                !.emit = Null, !.branch = "generic", !.triggered = FALSE]

\* The velocities predictWebcam derives from landmark 0 of the hand.
\* A variant whose dead zone ends at exactly 0.03.
moveSpeedAtLimit(x) ==
  LET rot == (50 - x) * rotationSensitivity
  IN  IF Abs(rot) >= rotationDeadZone THEN rot ELSE 0

moveSpeed(x) ==
  LET rot == (50 - x) * rotationSensitivity
  IN  IF Abs(rot) > rotationDeadZone THEN rot ELSE 0

tiltSpeed(y) ==
  LET pit == (50 - y) * pitchSensitivity
  IN  IF Abs(pit) > pitchDeadZone THEN pit ELSE 0

\* The refs as predictWebcam finds them, and as it leaves them for a frame f
\* processed at time t.
refsNow ==
  [lastGesture |-> lastGestureRef, debounce |-> gestureDebounceRef,
   exitTimer |-> exitGestureTimerRef, enterTimer |-> enterFocusTimerRef,
   emit |-> Null, branch |-> "none", triggered |-> FALSE]

refsAfter(f, t) ==
  IF f.hand
    THEN IF confident(f.score)
           THEN recognize(refsNow, f.name, t, sceneStateRef)
           ELSE refsNow
    ELSE [refsNow EXCEPT !.lastGesture = Null, !.exitTimer = NoTimer,
                         !.enterTimer = NoTimer]

\* The callbacks of one frame, in the order predictWebcam makes them, all
\* through the refs (closure c), on the latest state a.
appAfter(c, a, f, r, nearestIndex) ==
  LET a1 == IF f.hand
              THEN IF r.emit # Null
                     THEN handleGesture(c, a, r.emit, nearestIndex)
                     ELSE a
              ELSE handlePitch(c, handleMove(c, a, 0), 0)
  IN  IF f.hand
        THEN handlePitch(c, handleMove(c, a1, moveSpeed(f.x)), tiltSpeed(f.y))
        ELSE a1

\* ------------------------------------------------------- observation
ErrorStatuses == {"ERROR: MODEL FAILED"}

NoObs ==
  [kind |-> "none", by |-> 0, hand |-> FALSE, score |-> 0, x |-> 50, y |-> 50,
   gesture |-> Null, index |-> -1, branch |-> "none", triggered |-> FALSE,
   move |-> 0, pitch |-> 0, heldBefore |-> Null, wasFocus |-> FALSE,
   gap |-> -1, status |-> Null, failure |-> FALSE]

NoRun == [name |-> Null, since |-> 0]
NoHist ==
  [run |-> NoRun, crun |-> NoRun, toggleAt |-> NoTimer,
   frun |-> [name |-> Null, fires |-> 0, fresh |-> FALSE],
   reported |-> 0, taken |-> 0, enteredFrom |-> Null]

\* The run of consecutive frames that carried one gesture with a passing
\* score; ignoreLow leaves the run alone on a frame whose score did not pass.
runAfter(run, f, t, ignoreLow) ==
  IF f.hand /\ f.score > confidenceThreshold
    THEN IF run.name = f.name THEN run ELSE [name |-> f.name, since |-> t]
  ELSE IF f.hand /\ ignoreLow THEN run
  ELSE [name |-> Null, since |-> t]

isToggle(r) == r.branch = "generic" /\ r.emit \in {"CHAOS", "FORMED"}

\* The run of consecutive passing frames of one gesture that the controller
\* processed as FOCUS frames: how often onGesture was invoked in it, and
\* whether the gesture differed from the last triggered one when it began.
frunAfter(frun, f, r, currentState, last) ==
  IF f.hand /\ f.score > confidenceThreshold /\ currentState = "FOCUS"
    THEN LET same == frun.name = f.name
             n == IF same THEN frun.fires ELSE 0
         IN  [name |-> f.name,
              fires |-> IF r.emit # Null THEN (IF n < 2 THEN n + 1 ELSE 2) ELSE n,
              fresh |-> IF same THEN frun.fresh ELSE f.name # last]
    ELSE [name |-> Null, fires |-> 0, fresh |-> FALSE]

histAfter(h, f, t, r, currentState) ==
  [run |-> runAfter(h.run, f, t, FALSE),
   crun |-> runAfter(h.crun, f, t, TRUE),
   toggleAt |-> IF isToggle(r) THEN t ELSE h.toggleAt,
   frun |-> frunAfter(h.frun, f, r, currentState, lastGestureRef),
   reported |-> IF f.hand THEN moveSpeed(f.x) ELSE 0,
   taken |-> IF props.sceneState = "FOCUS" THEN h.taken
             ELSE IF f.hand THEN moveSpeed(f.x) ELSE 0,
   enteredFrom |-> h.enteredFrom]

\* The scene state that focus mode was last entered from, recorded on the
\* update that takes the App state a into focus mode as state b.
enteredAfter(h, a, b) ==
  IF a.sceneState # "FOCUS" /\ b.sceneState = "FOCUS"
    THEN [h EXCEPT !.enteredFrom = a.sceneState]
    ELSE h

obsAfter(i, f, t, r, a, nearestIndex) ==
  [NoObs EXCEPT
     !.kind = "frame", !.by = i, !.hand = f.hand, !.score = f.score,
     !.x = f.x, !.y = f.y,
     !.gesture = r.emit,
     !.index = IF r.emit = "ENTER_FOCUS" THEN nearestIndex ELSE -1,
     !.branch = r.branch, !.triggered = r.triggered,
     !.move = IF f.hand THEN moveSpeed(f.x) ELSE 0,
     !.pitch = IF f.hand THEN tiltSpeed(f.y) ELSE 0,
     !.heldBefore = lastGestureRef,
     !.wasFocus = (a.sceneState = "FOCUS"),
     !.gap = IF isToggle(r) /\ hist.toggleAt # NoTimer
               THEN t - hist.toggleAt ELSE -1]

\* ------------------------------------------------ TreeCanvas: the scene
\* One outcome of the random layout PhotoOrnaments draws: for each ornament
\* its position in the dispersed cloud and its place on the tree.
ChaosPos ==
  << << -24, 10, -30 >>, << 20, -16, 30 >>, << 30, 4, -10 >>,
     << -10, 28, 12 >>,  << 8, -30, -20 >>, << -32, 2, 22 >>,
     << 12, 20, 34 >>,   << -20, -8, -28 >>, << 0, 30, -34 >>,
     << 26, -22, 6 >>,   << -30, 16, -4 >>, << 16, 8, -22 >> >>
TargetPos ==
  << << 4, -8, 6 >>,  << -3, 2, -5 >>, << 2, 6, 3 >>,
     << -6, -10, 2 >>, << 1, 0, 7 >>,  << 5, -4, -4 >>,
     << 0, 4, 5 >>,   << 3, -6, -6 >>, << -4, 8, -1 >>,
     << 6, -9, -3 >>, << -2, 3, -6 >>, << -7, -10, 1 >> >>
chaosPos(i) == ChaosPos[i + 1]
targetPos(i) == TargetPos[i + 1]

HomeCamera == << 0, 8, 60 >>

\* Vector3.lerp(target, alpha) with alpha = 1/2, on integers.
lerpHalf(p, q) ==
  << p[1] + ((q[1] - p[1]) \div 2), p[2] + ((q[2] - p[2]) \div 2),
     p[3] + ((q[3] - p[3]) \div 2) >>

\* PhotoOrnaments' useFrame: every ornament that is not the focused photo
\* moves towards its place for the rendered state.
photosAfterFrame(pos, state, focused) ==
  [i \in Ornaments |->
     IF state = "FOCUS" /\ textureIndexOf(i) = focused
       THEN pos[i]
       ELSE lerpHalf(pos[i], IF state \in {"FORMED", "FOCUS"}
                               THEN targetPos(i) ELSE chaosPos(i))]

\* The registration effect run when PhotoOrnaments mounts: the first
\* ornament of each texture, which is ornament k for texture k.
registerAll(pos) == [k \in Textures |-> worldPos(pos[k])]

Sign(v) == IF v > 0 THEN 1 ELSE IF v < 0 THEN -1 ELSE 0

\* Where the focus transition puts the camera: five units in front of the
\* photo, along (x, 0.5, z) normalised; on integers, a 4-0-3 step.
focusCamera(p) == << p[1] + 4 * Sign(p[1]), p[2], p[3] + 3 * Sign(p[3]) >>

\* quality.cameraResetTransition: the reset is animated on a desktop only.
cameraResetTransition(sc) == ~sc.canvas.isMobileDevice

\* A variant of the camera effect that never raises isResettingRef.
cameraEffectNoGuard(sc, new) ==
  LET k == new.focusedTextureIndex
  IN  IF new.sceneState = "FOCUS" /\ k >= 0 /\ k # sc.prevFocusIndex
        THEN [sc EXCEPT !.timer = k, !.prevFocusIndex = k]
      ELSE IF new.sceneState = "FORMED"
        THEN [sc EXCEPT !.timer = -1, !.camera = HomeCamera,
                        !.prevFocusIndex = -1,
                        !.transition = IF cameraResetTransition(sc)
                                         THEN "reset" ELSE "none"]
      ELSE IF new.sceneState # "FOCUS"
        THEN [sc EXCEPT !.timer = -1, !.prevFocusIndex = -1,
                        !.isResetting = FALSE]
      ELSE [sc EXCEPT !.timer = -1]

\* One run of Experience's camera effect for the rendered state new, after
\* the cleanup of its previous run has cleared the pending timer; lookedAt
\* records the photo that the camera was last sent to since the rendered
\* scene state and index are what they are.  A reset
\* without transition resolves its promise before any frame runs; one with
\* a transition leaves the promise pending until the controls come to rest.
cameraEffect(sc, new) ==
  LET k == new.focusedTextureIndex
  IN  IF new.sceneState = "FOCUS" /\ k >= 0 /\ k # sc.prevFocusIndex
        THEN [sc EXCEPT !.timer = k, !.prevFocusIndex = k]
      ELSE IF new.sceneState = "FORMED"
        THEN [sc EXCEPT !.timer = -1, !.camera = HomeCamera,
                        !.prevFocusIndex = -1,
                        !.isResetting = cameraResetTransition(sc),
                        !.pendingReset = cameraResetTransition(sc),
                        !.transition = IF cameraResetTransition(sc)
                                         THEN "reset" ELSE "none"]
      ELSE IF new.sceneState # "FOCUS"
        THEN [sc EXCEPT !.timer = -1, !.prevFocusIndex = -1,
                        !.isResetting = FALSE]
      ELSE [sc EXCEPT !.timer = -1]

\* The effects that run when a render changes the scene state or the focused
\* index from old to new: PhotoOrnaments re-registers the focused photo, and
\* Experience's camera effect clears its pending timer and then either
\* schedules the move to the photo or resets the camera.
sceneAfterCommit(sc, old, new) ==
  IF ~sc.controls
       \/ (old.sceneState = new.sceneState
             /\ old.focusedTextureIndex = new.focusedTextureIndex)
    THEN sc
    ELSE
      LET k == new.focusedTextureIndex
          reg == IF new.sceneState = "FOCUS" /\ k >= 0
                   THEN [sc.registered EXCEPT ![k] = worldPos(sc.pos[k])]
                   ELSE sc.registered
      IN  cameraEffect([sc EXCEPT !.registered = reg, !.lookedAt = -1], new)

\* --------------------------------------------- TreeCanvas: the canvas
\* Pixel ratios in hundredths.  window.devicePixelRatio as the browser may
\* report it; 0 stands for every falsy value (0, undefined, NaN).
DesktopDprMax == 150
MobileDprMax == 125
DeviceDprs == {0, 50, 100, 110, 125, 130, 150, 200}

dprMax(isMobileDevice) == IF isMobileDevice THEN MobileDprMax ELSE DesktopDprMax

Min(a, b) == IF a < b THEN a ELSE b
Max(a, b) == IF a > b THEN a ELSE b

\* A variant without the lower bound.
clampDprNoFloor(maxDpr, devicePixelRatio) ==
  Min(IF devicePixelRatio = 0 THEN 100 ELSE devicePixelRatio, maxDpr)

clampDpr(maxDpr, devicePixelRatio) ==
  LET deviceDpr == IF devicePixelRatio = 0 THEN 100 ELSE devicePixelRatio
  IN  Min(Max(deviceDpr, 100), maxDpr)

NoCanvas ==
  [mounted |-> FALSE, isMobileDevice |-> FALSE, devicePixelRatio |-> 100,
   dpr |-> 100, clampedFrom |-> 100, degraded |-> FALSE,
   effectsEnabled |-> TRUE, effectPending |-> FALSE]

\* ---------------------------------------------------------------- Init
NoInstance ==
  [pc |-> "unmounted", isMounted |-> FALSE, gestureRecognizer |-> "undefined",
   requestRef |-> FALSE, stream |-> "undefined"]

Init ==
  /\ app = [sceneState |-> "CHAOS", focusedTextureIndex |-> -1,
            previousState |-> "FORMED", rotationSpeed |-> 0, pitchSpeed |-> 0,
            isUserInteracting |-> FALSE, gestureEnabled |-> FALSE,
            aiStatus |-> "AI: OFF"]
  /\ props = app
  /\ sceneStateRef = "CHAOS"
  /\ lastGestureRef = Null
  /\ gestureDebounceRef = 0
  /\ exitGestureTimerRef = NoTimer
  /\ enterFocusTimerRef = NoTimer
  /\ mounts = 0
  /\ gc = [i \in Mounts |-> NoInstance]
  /\ scene = [controls |-> FALSE,
              pos |-> [i \in Ornaments |-> chaosPos(i)],
              registered |-> [k \in Textures |-> NoPos],
              camera |-> HomeCamera, timer |-> -1, prevFocusIndex |-> -1,
              isResetting |-> FALSE, pendingReset |-> FALSE,
              transition |-> "none", lookedAt |-> -1, canvas |-> NoCanvas]
  /\ now = StartTime
  /\ obs = NoObs
  /\ hist = NoHist

\* ------------------------------------------------------- React commits
\* A render with the latest state, and the effects of its commit: the refs of
\* GestureController take the new callbacks and scene state, the scene's
\* effects run.
Commit(a) ==
  /\ props' = a
  /\ sceneStateRef' = a.sceneState
  /\ scene' = sceneAfterCommit(scene, props, a)

\* A state update made from a frame callback is rendered, and its effects
\* flushed, in a later task.
Render ==
  /\ props # app
  /\ Commit(app)
  /\ obs' = [NoObs EXCEPT !.kind = "render"]
  /\ UNCHANGED << app, lastGestureRef, gestureDebounceRef, exitGestureTimerRef,
                  enterFocusTimerRef, mounts, gc, now, hist >>

\* ---------------------------------------------------- user interface
\* A DOM event handler is a closure of the last render; React renders the
\* update of a discrete event, and flushes its effects, before it returns.
UiStep(a) ==
  /\ app' = a
  /\ Commit(a)
  /\ obs' = [NoObs EXCEPT !.kind = "ui"]
  /\ hist' = enteredAfter(hist, app, a)
  /\ UNCHANGED << lastGestureRef, gestureDebounceRef, exitGestureTimerRef,
                  enterFocusTimerRef, mounts, gc, now >>

\* TreeCanvas is shown: PhotoOrnaments registers its photos, Experience puts
\* the camera at its home and runs the camera effect for the rendered state.
MountScene ==
  /\ ~scene.controls
  /\ scene' = cameraEffect([scene EXCEPT !.controls = TRUE,
                                         !.registered = registerAll(scene.pos),
                                         !.camera = HomeCamera], props)
  /\ obs' = [NoObs EXCEPT !.kind = "ui"]
  /\ UNCHANGED << app, props, sceneStateRef, lastGestureRef, gestureDebounceRef,
                  exitGestureTimerRef, enterFocusTimerRef, mounts, gc, now, hist >>

ClickPhoto(k) ==
  /\ scene.controls
  /\ UiStep(enterFocusMode(props, app, k))

\* Escape, swipe down, a click on empty space.
ExitFocus ==
  /\ props.sceneState = "FOCUS"
  /\ UiStep(exitFocusMode(props, app))

\* The button that toggles the tree, and leaves focus mode.
ToggleButton ==
  UiStep(IF props.sceneState = "FOCUS"
           THEN exitFocusMode(props, app)
           ELSE [app EXCEPT !.sceneState =
                              IF @ = "CHAOS" THEN "FORMED" ELSE "CHAOS"])

NextKey ==
  /\ props.sceneState = "FOCUS"
  /\ UiStep(nextPhoto(props, app))

PrevKey ==
  /\ props.sceneState = "FOCUS"
  /\ UiStep(prevPhoto(props, app))

\* ------------------------------------------- GestureController: setup
onStatus(a, status) == [a EXCEPT !.aiStatus = status]

\* A variant that leaves the tracks of the stream running.
cleanupKeepsStream(g) ==
  [g EXCEPT !.requestRef = FALSE,
            !.gestureRecognizer = IF @ = "open" THEN "closed" ELSE @]

\* A variant that leaves the requested animation frame pending.
cleanupKeepsFrame(g) ==
  [g EXCEPT !.stream = IF @ = "live" THEN "stopped" ELSE @,
            !.gestureRecognizer = IF @ = "open" THEN "closed" ELSE @]

cleanup(g) ==
  [g EXCEPT !.requestRef = FALSE,
            !.stream = IF @ = "live" THEN "stopped" ELSE @,
            !.gestureRecognizer = IF @ = "open" THEN "closed" ELSE @]

Awaiting == {"forVisionTasks", "createFromOptions", "getUserMedia", "play"}

Mounted(i) == gc[i].isMounted

\* The button that enables gesture control; the effect on gestureEnabled.
EnableGesture ==
  /\ ~app.gestureEnabled
  /\ UiStep([app EXCEPT !.gestureEnabled = TRUE, !.aiStatus = "INITIALIZING..."])

\* A variant that mounts whether or not gesture control is enabled.
MountAnyway(i) ==
  /\ \A j \in Mounts : ~Mounted(j)
  /\ mounts < MaxMounts
  /\ i = mounts + 1
  /\ mounts' = i
  /\ gc' = [gc EXCEPT ![i] = [NoInstance EXCEPT !.pc = "forVisionTasks",
                                                !.isMounted = TRUE]]
  /\ app' = onStatus(app, "DOWNLOADING AI...")
  /\ props' = props
  /\ sceneStateRef' = props.sceneState
  /\ lastGestureRef' = Null
  /\ gestureDebounceRef' = 0
  /\ exitGestureTimerRef' = NoTimer
  /\ enterFocusTimerRef' = NoTimer
  /\ hist' = [NoHist EXCEPT !.enteredFrom = hist.enteredFrom]
  /\ obs' = [NoObs EXCEPT !.kind = "setup", !.by = i,
                          !.status = "DOWNLOADING AI..."]
  /\ UNCHANGED << scene, now >>

\* The lazily loaded GestureController mounts: fresh refs, and the setup
\* effect runs up to its first await.
Mount(i) ==
  /\ app.gestureEnabled
  /\ props.gestureEnabled
  /\ \A j \in Mounts : ~Mounted(j)
  /\ mounts < MaxMounts
  /\ i = mounts + 1
  /\ mounts' = i
  /\ gc' = [gc EXCEPT ![i] = [NoInstance EXCEPT !.pc = "forVisionTasks",
                                                !.isMounted = TRUE]]
  /\ app' = onStatus(app, "DOWNLOADING AI...")
  /\ props' = props
  /\ sceneStateRef' = props.sceneState
  /\ lastGestureRef' = Null
  /\ gestureDebounceRef' = 0
  /\ exitGestureTimerRef' = NoTimer
  /\ enterFocusTimerRef' = NoTimer
  /\ hist' = [NoHist EXCEPT !.enteredFrom = hist.enteredFrom]
  /\ obs' = [NoObs EXCEPT !.kind = "setup", !.by = i,
                          !.status = "DOWNLOADING AI..."]
  /\ UNCHANGED << scene, now >>

\* Gesture control is switched off: GestureController unmounts (the effect's
\* teardown), then the effect on gestureEnabled resets the App's state.
DisableGesture ==
  /\ app.gestureEnabled
  /\ gc' = [i \in Mounts |->
              IF Mounted(i) THEN cleanup([gc[i] EXCEPT !.isMounted = FALSE])
                            ELSE gc[i]]
  /\ app' = [app EXCEPT !.gestureEnabled = FALSE, !.aiStatus = "AI: OFF",
                        !.rotationSpeed = 0, !.pitchSpeed = 0,
                        !.isUserInteracting = FALSE]
  /\ Commit(app')
  /\ obs' = [NoObs EXCEPT !.kind = "ui"]
  /\ UNCHANGED << lastGestureRef, gestureDebounceRef, exitGestureTimerRef,
                  enterFocusTimerRef, mounts, now, hist >>

SetupFrame ==
  << props, sceneStateRef, lastGestureRef, gestureDebounceRef,
     exitGestureTimerRef, enterFocusTimerRef, mounts, scene, now, hist >>

\* FilesetResolver.forVisionTasks resolves.
VisionResolved(i) ==
  /\ gc[i].pc = "forVisionTasks"
  /\ gc' = [gc EXCEPT ![i].pc =
              IF Mounted(i) THEN "createFromOptions" ELSE "returned"]
  /\ obs' = [NoObs EXCEPT !.kind = "setup", !.by = i]
  /\ UNCHANGED << app, SetupFrame >>

\* GestureRecognizer.createFromOptions resolves.
RecognizerResolved(i) ==
  /\ gc[i].pc = "createFromOptions"
  /\ gc' = [gc EXCEPT ![i].gestureRecognizer = "open",
                      ![i].pc = IF Mounted(i) THEN "getUserMedia" ELSE "returned"]
  /\ app' = IF Mounted(i) THEN onStatus(app, "REQUESTING CAMERA...") ELSE app
  /\ obs' = [NoObs EXCEPT !.kind = "setup", !.by = i,
               !.status = IF Mounted(i) THEN "REQUESTING CAMERA..." ELSE Null]
  /\ UNCHANGED SetupFrame

\* navigator.mediaDevices.getUserMedia resolves with a live stream.
CameraResolved(i) ==
  /\ gc[i].pc = "getUserMedia"
  /\ gc' = [gc EXCEPT ![i].stream = "live",
                      ![i].pc = IF Mounted(i) THEN "play" ELSE "returned"]
  /\ obs' = [NoObs EXCEPT !.kind = "setup", !.by = i]
  /\ UNCHANGED << app, SetupFrame >>

\* One of the awaited promises rejects: the catch block.
SetupRejected(i) ==
  /\ gc[i].pc \in Awaiting
  /\ gc' = [gc EXCEPT ![i] = cleanup([gc[i] EXCEPT !.pc = "failed"])]
  /\ app' = onStatus(app, "ERROR: MODEL FAILED")
  /\ obs' = [NoObs EXCEPT !.kind = "setup", !.by = i,
               !.status = "ERROR: MODEL FAILED", !.failure = Mounted(i)]
  /\ UNCHANGED SetupFrame

\* ------------------------------------- GestureController: predictWebcam
\* One run of predictWebcam by instance i on the inference result f at time
\* t, starting from the App state a0; it ends by requesting the next frame.
FrameStep(i, f, t, a0, status) ==
  LET r == refsAfter(f, t)
      nearestIndex == getNearestPhotoIndex(scene)
  IN  /\ app' = appAfter(props, a0, f, r, nearestIndex)
      /\ lastGestureRef' = r.lastGesture
      /\ gestureDebounceRef' = r.debounce
      /\ exitGestureTimerRef' = r.exitTimer
      /\ enterFocusTimerRef' = r.enterTimer
      /\ hist' = enteredAfter(histAfter(hist, f, t, r, sceneStateRef), a0,
                               appAfter(props, a0, f, r, nearestIndex))
      /\ obs' = [obsAfter(i, f, t, r, a0, nearestIndex) EXCEPT !.status = status]
      /\ now' = t
      /\ UNCHANGED << props, sceneStateRef, mounts, scene >>

\* video.play() resolves after the teardown.
PlayResolvedUnmounted(i) ==
  /\ gc[i].pc = "play"
  /\ ~Mounted(i)
  /\ gc' = [gc EXCEPT ![i].pc = "returned"]
  /\ obs' = [NoObs EXCEPT !.kind = "setup", !.by = i]
  /\ UNCHANGED << app, SetupFrame >>

\* video.play() resolves: the status, and the first call of predictWebcam.
PlayResolved(i, f) ==
  /\ gc[i].pc = "play"
  /\ Mounted(i)
  /\ gc' = [gc EXCEPT ![i].pc = "looping", ![i].requestRef = TRUE]
  /\ FrameStep(i, f, now, onStatus(app, "AI READY: SHOW HAND"),
               "AI READY: SHOW HAND")

\* recognizeForVideo throws in that first call, inside setup's try block.
PlayResolvedThrows(i) ==
  /\ gc[i].pc = "play"
  /\ Mounted(i)
  /\ gc' = [gc EXCEPT ![i] = cleanup([gc[i] EXCEPT !.pc = "failed"])]
  /\ app' = onStatus(app, "ERROR: MODEL FAILED")
  /\ obs' = [NoObs EXCEPT !.kind = "setup", !.by = i,
               !.status = "ERROR: MODEL FAILED", !.failure = TRUE]
  /\ UNCHANGED SetupFrame

\* The animation frame requested by the previous run fires.
PredictWebcam(i, f, dt) ==
  /\ gc[i].requestRef
  /\ now + dt <= MaxTime
  /\ IF gc[i].gestureRecognizer = "undefined" \/ ~Mounted(i)
       THEN /\ gc' = [gc EXCEPT ![i].requestRef = FALSE]
            /\ now' = now + dt
            /\ obs' = [NoObs EXCEPT !.kind = "return", !.by = i]
            /\ UNCHANGED << app, props, sceneStateRef, lastGestureRef,
                            gestureDebounceRef, exitGestureTimerRef,
                            enterFocusTimerRef, mounts, scene, hist >>
       ELSE /\ gc' = gc
            /\ FrameStep(i, f, now + dt, app, Null)

\* recognizeForVideo throws in a frame callback: the exception leaves
\* predictWebcam before it requests the next frame.
PredictWebcamThrows(i, dt) ==
  /\ gc[i].requestRef
  /\ now + dt <= MaxTime
  /\ gc' = [gc EXCEPT ![i].requestRef = FALSE]
  /\ now' = now + dt
  /\ obs' = [NoObs EXCEPT !.kind = "throw", !.by = i, !.failure = Mounted(i)]
  /\ UNCHANGED << app, props, sceneStateRef, lastGestureRef, gestureDebounceRef,
                  exitGestureTimerRef, enterFocusTimerRef, mounts, scene, hist >>

\* ----------------------------------------------- TreeCanvas: the frames
UseFramePhotos ==
  /\ scene.controls
  /\ scene' = [scene EXCEPT !.pos = photosAfterFrame(
                   scene.pos, props.sceneState, props.focusedTextureIndex)]
  /\ scene'.pos # scene.pos
  /\ obs' = [NoObs EXCEPT !.kind = "useFrame"]
  /\ UNCHANGED << app, props, sceneStateRef, lastGestureRef, gestureDebounceRef,
                  exitGestureTimerRef, enterFocusTimerRef, mounts, gc, now, hist >>

\* The 50 ms timer of the focus branch of the camera effect fires.
FocusLookAt ==
  /\ scene.timer >= 0
  /\ scene' = [scene EXCEPT
                 !.timer = -1,
                 !.camera = IF scene.registered[scene.timer] # NoPos
                              THEN focusCamera(scene.registered[scene.timer])
                              ELSE @,
                 !.transition = IF scene.registered[scene.timer] # NoPos
                                  THEN "focus" ELSE @,
                 !.lookedAt = IF scene.registered[scene.timer] # NoPos
                                THEN scene.timer ELSE @]
  /\ obs' = [NoObs EXCEPT !.kind = "timer", !.index = scene.timer]
  /\ UNCHANGED << app, props, sceneStateRef, lastGestureRef, gestureDebounceRef,
                  exitGestureTimerRef, enterFocusTimerRef, mounts, gc, now, hist >>

\* Experience's useFrame: the gesture rotation and pitch of the last render
\* are applied to the camera, except in focus mode and during a reset.
UseFrameRotate ==
  /\ scene.controls
  /\ ~(props.sceneState = "FOCUS" \/ scene.isResetting)
  /\ effectiveRotationSpeed(props) # 0 \/ effectivePitchSpeed(props) # 0
  /\ obs' = [NoObs EXCEPT !.kind = "rotate",
                          !.move = effectiveRotationSpeed(props),
                          !.pitch = effectivePitchSpeed(props)]
  /\ UNCHANGED << app, props, sceneStateRef, lastGestureRef, gestureDebounceRef,
                  exitGestureTimerRef, enterFocusTimerRef, mounts, gc, scene,
                  now, hist >>

\* The camera comes to rest at the end of the transition in progress: the
\* promise of a pending reset resolves and lowers isResettingRef.
TransitionRests ==
  /\ scene.transition # "none"
  /\ scene' = [scene EXCEPT !.transition = "none", !.pendingReset = FALSE,
                            !.isResetting = IF scene.pendingReset
                                              THEN FALSE ELSE @]
  /\ obs' = [NoObs EXCEPT !.kind = "rest"]
  /\ UNCHANGED << app, props, sceneStateRef, lastGestureRef, gestureDebounceRef,
                  exitGestureTimerRef, enterFocusTimerRef, mounts, gc, now, hist >>

\* ---------------------------------------------- TreeCanvas: the canvas
CanvasFrame ==
  << app, props, sceneStateRef, lastGestureRef, gestureDebounceRef,
     exitGestureTimerRef, enterFocusTimerRef, mounts, gc, now, hist >>

CanvasStep(c) ==
  /\ scene' = [scene EXCEPT !.canvas = c]
  /\ obs' = [NoObs EXCEPT !.kind = "canvas"]
  /\ UNCHANGED CanvasFrame

\* The effect on quality.dprMax: the degradation is undone and the ratio
\* clamped again.
qualityEffect(c) ==
  [c EXCEPT !.degraded = FALSE, !.effectsEnabled = TRUE,
            !.dpr = clampDpr(dprMax(c.isMobileDevice), c.devicePixelRatio),
            !.clampedFrom = c.devicePixelRatio,
            !.effectPending = FALSE]

\* TreeCanvas mounts on a device that reports m and d: the initial state of
\* dpr, and the first run of the effect.
MountCanvas(m, d) ==
  /\ ~scene.canvas.mounted
  /\ CanvasStep(qualityEffect([NoCanvas EXCEPT !.mounted = TRUE,
                                               !.isMobileDevice = m,
                                               !.devicePixelRatio = d]))

\* The window is zoomed or moved to another screen.
DevicePixelRatioChanges(d) ==
  /\ scene.canvas.mounted
  /\ d # scene.canvas.devicePixelRatio
  /\ CanvasStep([scene.canvas EXCEPT !.devicePixelRatio = d])

\* A render finds the other answer to the mobile test: quality changes, the
\* effect is pending, dpr is still the old state; the camera effect, which
\* depends on quality.cameraResetTransition, runs again.
RenderOtherDevice ==
  /\ scene.canvas.mounted
  /\ ~scene.canvas.effectPending
  /\ LET sc == [scene EXCEPT !.canvas.isMobileDevice = ~@,
                             !.canvas.effectPending = TRUE]
     IN  scene' = IF scene.controls THEN cameraEffect(sc, props) ELSE sc
  /\ obs' = [NoObs EXCEPT !.kind = "canvas"]
  /\ UNCHANGED CanvasFrame

QualityEffect ==
  /\ scene.canvas.mounted
  /\ scene.canvas.effectPending
  /\ CanvasStep(qualityEffect(scene.canvas))

\* PerformanceMonitor reports a decline.
handlePerformanceDecline(c) ==
  IF ~c.isMobileDevice \/ c.degraded
    THEN c
    ELSE [c EXCEPT !.degraded = TRUE, !.dpr = 100, !.effectsEnabled = FALSE]

PerformanceDecline ==
  /\ scene.canvas.mounted
  /\ scene' = [scene EXCEPT !.canvas = handlePerformanceDecline(@)]
  /\ obs' = [NoObs EXCEPT !.kind = "decline"]
  /\ UNCHANGED CanvasFrame

\* ----------------------------------------------------------------- Next
\* The frames of the debounce specification: every label at both scores,
\* with the hand in one place.
DebounceFrames ==
  {f \in Frames : f.hand => (f.x = 30 /\ f.y = 80)}

Started ==
  \/ MountScene
  \/ EnableGesture
  \/ \E i \in Mounts :
       \/ Mount(i)
       \/ VisionResolved(i)
       \/ RecognizerResolved(i)
       \/ CameraResolved(i)

\* Gesture control is enabled and its setup succeeds; then frames arrive,
\* interleaved with renders and with the mouse and keyboard.
NextFrames ==
  \/ Started
  \/ Render
  \/ ToggleButton
  \/ ExitFocus
  \/ \E k \in ClickChoices : ClickPhoto(k)
  \/ \E i \in Mounts, f \in DebounceFrames : PlayResolved(i, f)
  \/ \E i \in Mounts, f \in DebounceFrames, dt \in FrameGaps :
       PredictWebcam(i, f, dt)

SpecFrames == Init /\ [][NextFrames]_vars

\* The life of GestureController: gesture control is switched on and off
\* while the setup is at any of its awaits, promises reject, inference
\* throws; the frames carry no gesture of interest.
LifeFrames ==
  {NoHand, [hand |-> TRUE, name |-> "Victory", score |-> 66, x |-> 30, y |-> 80]}
LifeGaps == {400}

Next ==
  \/ EnableGesture
  \/ DisableGesture
  \/ Render
  \/ \E i \in Mounts :
       \/ Mount(i)
       \/ VisionResolved(i)
       \/ RecognizerResolved(i)
       \/ CameraResolved(i)
       \/ SetupRejected(i)
       \/ PlayResolvedUnmounted(i)
       \/ PlayResolvedThrows(i)
       \/ \E f \in LifeFrames : PlayResolved(i, f)
       \/ \E f \in LifeFrames, dt \in LifeGaps : PredictWebcam(i, f, dt)
       \/ \E dt \in LifeGaps : PredictWebcamThrows(i, dt)

Spec == Init /\ [][Next]_vars

\* The hand moves: one label, both scores, landmark 0 at and just past both
\* ends of both dead zones.
HandFrames ==
  {NoHand} \cup
  [hand : {TRUE}, name : {"Victory"}, score : Scores,
   x : HandXs, y : HandYs]
HandGaps == {400}

NextHand ==
  \/ Started
  \/ Render
  \/ ExitFocus
  \/ \E k \in ClickChoices : ClickPhoto(k)
  \/ \E i \in Mounts, f \in HandFrames : PlayResolved(i, f)
  \/ \E i \in Mounts, f \in HandFrames, dt \in HandGaps :
       PredictWebcam(i, f, dt)

SpecHand == Init /\ [][NextHand]_vars

\* The photos move while the hand points up: the tree is toggled, the
\* ornaments drift, the camera follows the focused photo.
PhotoFrames ==
  {[hand |-> TRUE, name |-> "Pointing_Up", score |-> 66, x |-> 30, y |-> 80]}
PhotoGaps == {400}

NextPhotos ==
  \/ Started
  \/ Render
  \/ ToggleButton
  \/ UseFramePhotos
  \/ FocusLookAt
  \/ \E i \in Mounts, f \in PhotoFrames : PlayResolved(i, f)
  \/ \E i \in Mounts, f \in PhotoFrames, dt \in PhotoGaps :
       PredictWebcam(i, f, dt)

SpecPhotos == Init /\ [][NextPhotos]_vars

\* ------------------------------------------------ properties: debounce
FrameSeen == obs.kind = "frame" /\ obs.hand

ExitGestureOf(g) == IF g = "CHAOS" THEN "Open_Palm" ELSE "Closed_Fist"

\* C1: onGesture is invoked on a frame only if the frame's top gesture has a
\* score strictly above the confidence threshold 0.65, whatever the label
\* and the scene state: a frame at or below the threshold invokes nothing.
C1_ConfidenceGate ==
  (FrameSeen /\ obs.score <= confidenceThreshold) => obs.gesture = Null

\* A frame at the threshold arrives in focus mode when the exit timer has run
\* for more than 400 ms, so that a passing score would have fired.
C1_Witness ==
  /\ FrameSeen
  /\ obs.score = confidenceThreshold
  /\ sceneStateRef = "FOCUS"
  /\ exitGestureTimerRef > 0
  /\ now - exitGestureTimerRef > EXIT_CONFIRM_DURATION
  /\ obs.gesture = Null

\* C2: a CHAOS or FORMED emitted by the exit branch of focus mode comes after
\* its own exit gesture (Open_Palm for CHAOS, Closed_Fist for FORMED) was
\* observed for more than 400 ms without another gesture in between; stated
\* on the frames whose score passed, which is the least the claim asks for.
C2_ExitHeldSameGesture ==
  (FrameSeen /\ obs.branch = "exit" /\ obs.gesture \in {"CHAOS", "FORMED"})
    => /\ hist.crun.name = ExitGestureOf(obs.gesture)
       /\ now - hist.crun.since > EXIT_CONFIRM_DURATION

Thumbs == {"Thumb_Up", "Thumb_Down"}

ThumbOf(g) == IF g = "PREV_PHOTO" THEN "Thumb_Up" ELSE "Thumb_Down"

ThumbFiredOnChange ==
  (FrameSeen /\ obs.gesture \in {"PREV_PHOTO", "NEXT_PHOTO"})
    => obs.heldBefore # ThumbOf(obs.gesture)

\* C5, as stated: a thumb held over consecutive frames of focus mode has
\* fired exactly once, and a thumb fires only when the last triggered
\* gesture is another one or none.
C5_HeldThumbFiresOnce ==
  /\ hist.frun.name \in Thumbs => hist.frun.fires = 1
  /\ ThumbFiredOnChange

\* C5, amended: a thumb held over consecutive frames of focus mode has fired
\* once if it was not the last triggered gesture when the hold began and not
\* at all if it was; and a thumb fires only when the last triggered gesture
\* is another one or none.
C5_HeldThumbFiresAtMostOnce ==
  /\ hist.frun.name \in Thumbs
       => hist.frun.fires = (IF hist.frun.fresh THEN 1 ELSE 0)
  /\ ThumbFiredOnChange

\* Thumb_Up has been held in focus mode for more than 500 ms since it fired
\* PREV_PHOTO, and has not fired again.
C5_Witness ==
  /\ FrameSeen
  /\ hist.frun.name = "Thumb_Up"
  /\ hist.frun.fires = 1
  /\ obs.gesture = Null
  /\ now - gestureDebounceRef > DEBOUNCE_INTERVAL

\* C9: when a frame emits CHAOS or FORMED, the scene state becomes the
\* emitted one, and if the scene was FOCUS the focused photo is reset to -1.
C9_ToggleSetsScene ==
  (FrameSeen /\ obs.gesture \in {"CHAOS", "FORMED"})
    => /\ app.sceneState = obs.gesture
       /\ obs.wasFocus => app.focusedTextureIndex = -1
\* ------------------------------------------------ properties: lifecycle
\* C6: once a GestureController is torn down, no camera stream its setup
\* obtained from getUserMedia is left with live tracks, whichever await the
\* teardown fell into.
C6_StreamsStoppedAfterTeardown ==
  \A i \in Mounts :
    (gc[i].pc # "unmounted" /\ ~gc[i].isMounted) => gc[i].stream # "live"

\* C7: every failure while the component is mounted (a rejected download,
\* recognizer, camera or play, an inference that throws) calls onStatus with
\* a string that starts with ERROR.
C7_FailureSurfaced ==
  obs.failure => (obs.status \in ErrorStatuses /\ app.aiStatus = obs.status)

\* --------------------------------------------------- properties: hand
\* C8: for a frame with a hand at (x, y), onMove receives (0.5 - x) * 0.15 if
\* its magnitude exceeds 0.03 and 0 otherwise, and onPitch receives
\* (0.5 - y) * 0.1 if its magnitude exceeds 0.03 and 0 otherwise; outside
\* focus mode these become the rotation and pitch speeds.
C8_HandVelocity ==
  FrameSeen =>
    LET rot == (50 - obs.x) * rotationSensitivity
        pit == (50 - obs.y) * pitchSensitivity
    IN  /\ obs.move = (IF rot > rotationDeadZone \/ rot < -rotationDeadZone
                         THEN rot ELSE 0)
        /\ obs.pitch = (IF pit > pitchDeadZone \/ pit < -pitchDeadZone
                          THEN pit ELSE 0)
        /\ props.sceneState # "FOCUS"
             => (app.rotationSpeed = obs.move /\ app.pitchSpeed = obs.pitch)

\* The hand is exactly at the end of the rotation dead zone and just past the
\* end of the pitch dead zone.
C8_Witness ==
  /\ FrameSeen
  /\ obs.x = 30 /\ obs.move = 0 /\ app.rotationSpeed = 0
  /\ obs.y = 81 /\ obs.pitch = -310 /\ app.pitchSpeed = -310

\* ------------------------------------------------- properties: photos
\* C10: the index passed with ENTER_FOCUS is that of the photo closest to the
\* camera at that moment, among the photos whose positions are registered.
C10_NearestIsClosest ==
  (FrameSeen /\ obs.gesture = "ENTER_FOCUS" /\ scene.controls)
    => \A k \in Textures :
         DistSq(scene.camera, worldPos(scene.pos[obs.index]))
           <= DistSq(scene.camera, worldPos(scene.pos[k]))
\* ------------------------------------------- specification: navigation
\* Focus mode is entered, browsed and left by the mouse, the keyboard, the
\* buttons and the hand, with renders falling behind the frames.
NavFrames ==
  {NoHand} \cup
  [hand : {TRUE},
   name : {"Open_Palm", "Closed_Fist", "Pointing_Up", "Thumb_Up", "Thumb_Down"},
   score : {66}, x : {30}, y : {80}]
NavGaps == {400}

NextNav ==
  \/ Started
  \/ Render
  \/ ToggleButton
  \/ ExitFocus
  \/ NextKey
  \/ PrevKey
  \/ \E k \in ClickChoices : ClickPhoto(k)
  \/ \E i \in Mounts, f \in NavFrames : PlayResolved(i, f)
  \/ \E i \in Mounts, f \in NavFrames, dt \in NavGaps : PredictWebcam(i, f, dt)

SpecNav == Init /\ [][NextNav]_vars

\* ---------------------------------------------- properties: navigation
N == TOTAL_NUMBERED_PHOTOS

NextPhotoStep == NextKey \/ (obs'.kind = "frame" /\ obs'.gesture = "NEXT_PHOTO")
PrevPhotoStep == PrevKey \/ (obs'.kind = "frame" /\ obs'.gesture = "PREV_PHOTO")

CycleStep(d) ==
  IF app.sceneState = "FOCUS" /\ app.focusedTextureIndex \in Textures
    THEN /\ app'.focusedTextureIndex = (app.focusedTextureIndex + d + N) % N
         /\ app'.sceneState = "FOCUS"
    ELSE /\ app'.focusedTextureIndex = app.focusedTextureIndex
         /\ app'.sceneState = app.sceneState

\* C11: a step that runs nextPhoto (the key, or NEXT_PHOTO from a frame)
\* takes the focused index k of focus mode to (k + 1) mod N, one that runs
\* prevPhoto takes it to (k - 1 + N) mod N, and outside focus mode either
\* leaves the focused index and the scene state as they are.
C11_PhotoCycle ==
  [][(NextPhotoStep => CycleStep(1)) /\ (PrevPhotoStep => CycleStep(-1))]_vars
\* ----------------------------------------------- specification: canvas
NextCanvas ==
  \/ \E m \in BOOLEAN, d \in DeviceDprs : MountCanvas(m, d)
  \/ \E d \in DeviceDprs : DevicePixelRatioChanges(d)
  \/ RenderOtherDevice
  \/ QualityEffect
  \/ PerformanceDecline

SpecCanvas == Init /\ [][NextCanvas]_vars

\* C12: the pixel ratio passed to the Canvas is at least 1 and at most 1.5,
\* on desktop and on mobile, before and after a performance decline, and
\* whatever window.devicePixelRatio is.
C12_DprCapped ==
  scene.canvas.mounted => (100 <= scene.canvas.dpr /\ scene.canvas.dpr <= 150)

\* A mobile canvas that clamped a falsy device ratio to 1 and then declined.
C12_Witness ==
  /\ scene.canvas.mounted
  /\ scene.canvas.isMobileDevice
  /\ scene.canvas.degraded
  /\ scene.canvas.clampedFrom = 0
  /\ scene.canvas.dpr = 100
\* -------------------------------------------- specification: on demand
\* The life of GestureController while the scene is shown and used with the
\* mouse.
NextOnDemand ==
  \/ Next
  \/ MountScene
  \/ ToggleButton
  \/ ExitFocus
  \/ \E k \in ClickChoices : ClickPhoto(k)

SpecOnDemand == Init /\ [][NextOnDemand]_vars

\* C13: a GestureController is mounted, and its setup under way, only while
\* gesture control is enabled; as long as none has been mounted and gesture
\* control is off, which covers every state reached without enabling it, no
\* setup has started and the status reads AI: OFF.
C13_AiOnDemand ==
  /\ \A i \in Mounts : gc[i].isMounted => app.gestureEnabled
  /\ \A i \in Mounts : gc[i].pc # "unmounted" => i <= mounts
  /\ mounts = 0 => \A i \in Mounts : gc[i] = NoInstance
  /\ (mounts = 0 /\ ~app.gestureEnabled) => app.aiStatus = "AI: OFF"

\* Gesture control was enabled, disabled and enabled again: the second
\* GestureController is asking for the camera, the scene has been used.
C13_Witness ==
  /\ mounts = 2
  /\ app.gestureEnabled
  /\ gc[2].isMounted
  /\ gc[2].pc = "getUserMedia"
  /\ app.sceneState = "FOCUS"
\* ---------------------------------------- specification: auto rotation
\* The hand moves in and out of the dead zone and disappears, while focus
\* mode is entered and left with the mouse and gesture control is switched
\* on and off.
AutoFrames ==
  {NoHand} \cup
  [hand : {TRUE}, name : {"Victory"}, score : {66}, x : {29, 30}, y : {80}]
AutoGaps == {400}

NextAuto ==
  \/ Started
  \/ DisableGesture
  \/ Render
  \/ ExitFocus
  \/ ClickPhoto(0)
  \/ \E i \in Mounts, f \in AutoFrames : PlayResolved(i, f)
  \/ \E i \in Mounts, f \in AutoFrames, dt \in AutoGaps : PredictWebcam(i, f, dt)

SpecAuto == Init /\ [][NextAuto]_vars

Rendered == props = app

C15_FocusBookkeeping ==
  /\ (app.sceneState = "FOCUS") <=> (app.focusedTextureIndex \in Textures)
  /\ (app.sceneState # "FOCUS") => (app.focusedTextureIndex = -1)

\* An exit control (Escape, swipe down, empty-space click, exit button) acts
\* on a scene that is in focus mode.
ExitStep ==
  /\ app.sceneState = "FOCUS"
  /\ props.sceneState = "FOCUS"
  /\ ExitFocus \/ ToggleButton

\* C16: leaving focus mode through exitFocusMode restores the scene state
\* that focus mode was entered from, whatever navigation or re-selection
\* happened in between, and previousState is never FOCUS.
C16_FocusRoundTrip ==
  [][/\ ExitStep => app'.sceneState = hist.enteredFrom
     /\ app'.previousState # "FOCUS"]_vars

\* C17: in focus mode, once every frame carries a confident Open_Palm (resp.
\* Closed_Fist), the first such frame more than 400 ms after the first one
\* emits CHAOS (resp. FORMED), and no earlier frame does. The part checked
\* here is the second: a CHAOS or FORMED of the exit branch is emitted on a
\* frame that ends an unbroken run of confident frames of its gesture, more
\* than 400 ms after the first frame of the run.
C17_HoldFiresNoEarlier ==
  \A g \in {"CHAOS", "FORMED"} :
    (obs.kind = "frame" /\ obs.branch = "exit" /\ obs.gesture = g)
      => /\ hist.run.name = ExitGestureOf(g)
         /\ hist.run.since + EXIT_CONFIRM_DURATION < now

\* C18: whenever gesture control is disabled and the effect on gestureEnabled
\* has run, aiStatus is 'AI: OFF', and it stays so until gesture control is
\* enabled again, whatever step of a torn-down controller's setup completes
\* or fails in the meantime.
C18_StatusOffWhileDisabled ==
  ~app.gestureEnabled => app.aiStatus = "AI: OFF"

\* A GestureController that was mounted and has been torn down.
TornDown(i) == gc[i].pc # "unmounted" /\ ~gc[i].isMounted

\* C19: after GestureController is torn down none of its callbacks is invoked
\* any more: a frame that reaches onGesture, onMove or onPitch belongs to a
\* mounted controller, and a torn-down controller has no animation frame
\* pending, whichever step of its setup completes after the teardown.
C19_SilentAfterTeardown ==
  /\ obs.kind = "frame" => Mounted(obs.by)
  /\ \A i \in Mounts : TornDown(i) => ~gc[i].requestRef

\* The first controller was torn down while video.play() was pending, which
\* then resolved; the second was torn down while its loop was running.
C19_Witness ==
  /\ TornDown(1) /\ gc[1].pc = "returned" /\ gc[1].stream = "stopped"
  /\ TornDown(2) /\ gc[2].pc = "looping"
  /\ now > StartTime

\* C20: once the setup of a GestureController has failed, the stream it had
\* acquired is stopped and its recognizer closed, its recognition loop is not
\* running, and the controller stays failed: no step restarts its setup.
C20_NoRetryAfterFailure ==
  [][\A i \in Mounts :
       /\ gc'[i].pc = "failed"
            => /\ gc'[i].stream # "live"
               /\ gc'[i].gestureRecognizer # "open"
               /\ ~gc'[i].requestRef
       /\ gc[i].pc = "failed" => gc'[i].pc = "failed"]_vars

\* video.play() rejected on a mounted controller that held a camera stream
\* and a recognizer; the error has been rendered and nothing was retried.
C20_Witness ==
  /\ gc[1].pc = "failed" /\ gc[1].isMounted
  /\ gc[1].stream = "stopped" /\ gc[1].gestureRecognizer = "closed"
  /\ ~gc[1].requestRef
  /\ app.aiStatus = "ERROR: MODEL FAILED"
  /\ obs.kind = "render"

\* A frame of the recognition loop reaches the App's callbacks in this step.
FrameRuns == obs'.kind = "frame"

\* While gesture control stays enabled, a mounted controller stays mounted
\* and its setup is not started again.
SetupKept ==
  \A i \in Mounts :
    (Mounted(i) /\ app.gestureEnabled /\ app'.gestureEnabled)
      => /\ gc'[i].isMounted
         /\ gc'[i].pc = "forVisionTasks" => gc[i].pc = "forVisionTasks"

\* C21: the setup runs once per mount of GestureController: changes of the
\* scene state and of the callbacks neither tear it down nor restart it, and
\* every frame of the loop reads, through the refs, the scene state the App
\* holds when the frame runs.
C21_SetupOnceLatestState ==
  [][SetupKept /\ (FrameRuns => sceneStateRef = app.sceneState)]_vars

\* The camera: the scene is toggled, photos are focused and left, by mouse
\* and by hand, on a desktop and on a mobile device, while the camera's
\* transitions run and the scene's frame loop applies the speeds.
CameraFrames ==
  {NoHand} \cup
  [hand : {TRUE}, name : {"Pointing_Up"}, score : {66}, x : {29}, y : {81}]
CameraGaps == {400}

NextCamera ==
  \/ Started
  \/ Render
  \/ ToggleButton
  \/ ExitFocus
  \/ ClickPhoto(0)
  \/ \E m \in BOOLEAN : MountCanvas(m, 100)
  \/ FocusLookAt
  \/ UseFrameRotate
  \/ TransitionRests
  \/ \E i \in Mounts, f \in CameraFrames : PlayResolved(i, f)
  \/ \E i \in Mounts, f \in CameraFrames, dt \in CameraGaps :
       PredictWebcam(i, f, dt)

SpecCamera == Init /\ [][NextCamera]_vars

\* C22: while the scene is in focus mode a frame's onMove and onPitch change
\* none of rotationSpeed, pitchSpeed and isUserInteracting, the speeds passed
\* to the scene are both 0, and the scene's frame loop does not rotate the
\* camera.
C22_HandIgnoredInFocus ==
  [][app.sceneState = "FOCUS"
       => /\ FrameRuns => /\ app'.rotationSpeed = app.rotationSpeed
                          /\ app'.pitchSpeed = app.pitchSpeed
                          /\ app'.isUserInteracting = app.isUserInteracting
          /\ Rendered => /\ effectiveRotationSpeed(props) = 0
                         /\ effectivePitchSpeed(props) = 0
          /\ ~UseFrameRotate]_vars

\* C23: from the start of a camera reset (the scene turns FORMED) until its
\* transition has come to rest, the scene's frame loop does not rotate the
\* camera, whatever state changes overlap the reset.
C23_NoRotateDuringReset ==
  [][UseFrameRotate => scene.transition # "reset"]_vars

\* Focusing by mouse and keyboard: photos are selected, changed and left and
\* the tree is toggled, before and after the scene is shown, while the
\* window may cross the mobile breakpoint between two renders.
NextLook ==
  \/ MountScene
  \/ ToggleButton
  \/ ExitFocus
  \/ NextKey
  \/ PrevKey
  \/ \E k \in ClickChoices : ClickPhoto(k)
  \/ \E m \in BOOLEAN : MountCanvas(m, 100)
  \/ RenderOtherDevice
  \/ QualityEffect
  \/ FocusLookAt

SpecLook == Init /\ [][NextLook]_vars

\* The scene is shown and the rendered state is focus mode on photo k.
FocusedOn(k) ==
  scene.controls /\ props.sceneState = "FOCUS" /\ props.focusedTextureIndex = k

\* C24: while the scene is in focus mode on photo k, the delayed move of the
\* camera to photo k is pending or has been executed, so that the camera
\* reaches the photo once the 50 ms have passed; and a pending move is
\* always the one for the photo in focus, never one for an earlier index.
C24_FocusMovesCamera ==
  /\ \A k \in Textures :
       FocusedOn(k) => (scene.timer = k \/ scene.lookedAt = k)
  /\ scene.timer >= 0 => FocusedOn(scene.timer)

\* C25: in focus mode, selecting photo k only sets focusedTextureIndex to k
\* (scene state, previous state and rotation speed stay as they are), and a
\* frame that emits ENTER_FOCUS changes none of the scene state, the previous
\* state and the focused index.
C25_ReselectOnlySwitches ==
  [][app.sceneState = "FOCUS"
       => /\ \A k \in ClickChoices :
               ClickPhoto(k) => app' = [app EXCEPT !.focusedTextureIndex = k]
          /\ (FrameRuns /\ obs'.gesture = "ENTER_FOCUS")
               => /\ app'.sceneState = app.sceneState
                  /\ app'.previousState = app.previousState
                  /\ app'.focusedTextureIndex = app.focusedTextureIndex]_vars

Toggles == {"Open_Palm", "Closed_Fist"}

\* What the generic branch is stated to dispatch for a label when the
\* controller reads the scene state currentState.
StatedDispatch(name, currentState) ==
  IF name \in Toggles
    THEN IF currentState # "FOCUS"
           THEN (IF name = "Open_Palm" THEN "CHAOS" ELSE "FORMED")
           ELSE Null
    ELSE IF currentState = "FOCUS"
           THEN (IF name = "Thumb_Up" THEN "PREV_PHOTO" ELSE "NEXT_PHOTO")
           ELSE Null

\* C26: in the generic branch a passing Open_Palm or Closed_Fist frame
\* triggers exactly when its label differs from lastGesture or more than
\* 500 ms have passed since the debounce timestamp, a thumb frame exactly
\* when its label differs from lastGesture; a trigger sets lastGesture to the
\* label and the timestamp to the frame's time, and dispatches CHAOS or
\* FORMED only when the controller reads a state outside focus mode,
\* PREV_PHOTO or NEXT_PHOTO only when it reads focus mode; a frame that does
\* not trigger dispatches nothing.
C26_GenericBranch ==
  [][(FrameRuns /\ obs'.branch = "generic"
        /\ hist'.run.name \in Toggles \cup Thumbs)
       => LET name == hist'.run.name
              due == IF name \in Toggles
                       THEN name # lastGestureRef
                              \/ now' - gestureDebounceRef > DEBOUNCE_INTERVAL
                       ELSE name # lastGestureRef
          IN  /\ obs'.triggered <=> due
              /\ obs'.triggered
                   => /\ lastGestureRef' = name
                      /\ gestureDebounceRef' = now'
                      /\ obs'.gesture = StatedDispatch(name, sceneStateRef)
              /\ ~obs'.triggered => obs'.gesture = Null]_vars

\* Closed_Fist, already the last triggered gesture, triggers again once the
\* 500 ms have passed: FORMED is dispatched and the timestamp is the frame's.
C26_Witness ==
  /\ FrameSeen /\ obs.branch = "generic"
  /\ hist.run.name = "Closed_Fist" /\ obs.heldBefore = "Closed_Fist"
  /\ obs.triggered /\ obs.gesture = "FORMED"
  /\ lastGestureRef = "Closed_Fist" /\ gestureDebounceRef = now

\* C27: a frame whose score is at or below the confidence threshold leaves
\* lastGesture, the exit timer, the enter-focus timer and the debounce
\* timestamp as they were and emits nothing; the App only receives the two
\* velocities of the hand position.
C27_LowScoreKeepsState ==
  [][(FrameRuns /\ obs'.hand /\ obs'.score <= confidenceThreshold)
       => /\ UNCHANGED << lastGestureRef, gestureDebounceRef,
                          exitGestureTimerRef, enterFocusTimerRef >>
          /\ obs'.gesture = Null
          /\ app' = handlePitch(props,
                      handleMove(props,
                                 [app EXCEPT !.aiStatus = app'.aiStatus],
                                 moveSpeed(obs'.x)),
                      tiltSpeed(obs'.y))]_vars

\* A frame at the threshold came while the enter-focus timer was running and
\* after an earlier gesture had triggered: all of it is still in place.
C27_Witness ==
  /\ FrameSeen
  /\ obs.score = confidenceThreshold
  /\ obs.branch = "none"
  /\ lastGestureRef # Null
  /\ gestureDebounceRef > 0
  /\ enterFocusTimerRef > 0

====
